---- MODULE Spec2Model ----
(***************************************************************************)
(* Model of the resolution-plan pipeline of swe-agent.                     *)
(*                                                                         *)
(*   Spec       the publish attempt, setup_and_update_branch               *)
(*              (src/src/branch_utils.py), against a hosting service whose *)
(*              every call may succeed or fail in any way.                 *)
(*   SpecParse  parse_ai_response (src/src/issue_resolution.py) on model   *)
(*              responses: JSON, fenced JSON, broken JSON, plain text.     *)
(***************************************************************************)
EXTENDS Integers, Sequences, FiniteSets, TLC

VARIABLES
    pc,             \* position in setup_and_update_branch
    modified_files, \* the edit set, as the paths in iteration order
    base_arg,       \* the base_branch argument of the caller
    default_branch, \* repo.default_branch on the hosting service
    base_branch,    \* the local base_branch after line 79
    new_branch,     \* the local new_branch ("None" before / on failure)
    idx,            \* number of edit-set entries the loop has consumed
    files_updated,  \* the local flag of lines 86-90
    result,         \* what the call handed to its caller
    calls,          \* hosting-service calls issued so far, in order
    refs,           \* branch refs the call created on the hosting service
    commits,        \* file commits made on the new branch, in order
    diff_empty,     \* whether compare() reported no changed files
    response,       \* the text handed to parse_ai_response, as tokens
    p_pc,           \* position in parse_ai_response
    data,           \* the local data of parse_ai_response
    outcome,        \* how parse_ai_response ended: a return or the error raised
    plan,           \* what the ResolutionPlan constructor gave: a plan or the error
    m_plan,         \* plan.subtasks of modify_files, as the descriptions
    file_contents,  \* the file_contents argument, as path and content pairs
    m_modified_files, \* the local modified_files of modify_files, in key order
    m_pc,           \* position in modify_files
    m_i,            \* index of the subtask the loop of line 121 is at
    m_j,            \* index of the file the loop of line 142 is at
    m_calls,        \* calls modify_files made so far, in order
    m_result,       \* how modify_files ended: a return or a raise
    cs_pc,          \* position in setup_and_test_codespace
    elapsed,        \* seconds since the polling loop at hand was entered
    command,        \* which command is run: 1 installs, 2 runs pytest
    codespace,      \* the local codespace: unbound or created
    cs_result,      \* what setup_and_test_codespace handed to its caller
    deletes,        \* the delete_codespace calls made, as what each request gave
    r_pc,           \* position in make_github_request
    max_retries,    \* the max_retries argument
    attempt,        \* the loop variable of line 23
    requests,       \* what each requests.request call gave, in order
    sleeps,         \* the seconds of each time.sleep call, in order
    r_result        \* how make_github_request ended

pubVars == <<pc, modified_files, base_arg, default_branch, base_branch,
             new_branch, idx, files_updated, result, calls, refs, commits,
             diff_empty>>

parseVars == <<response, p_pc, data, outcome, plan>>

modVars == <<m_plan, file_contents, m_modified_files, m_pc, m_i, m_j, m_calls,
             m_result>>

csVars == <<cs_pc, elapsed, command, codespace, cs_result, deletes>>

reqVars == <<r_pc, max_retries, attempt, requests, sleeps, r_result>>

vars == <<pubVars, parseVars, modVars, csVars, reqVars>>

----------------------------------------------------------------------------
(* Bounds and program constants *)

MaxFiles == 2

MAX_RETRIES == 3

Paths == {"README.md", "app.py", "test_app.py"}

BranchNames == {"main", "develop"}

None == "None"

NewBranchName == "fix-issue-T"

PrUrl == "https://github.com/o/r/pull/1"

----------------------------------------------------------------------------
(* Outcomes of one call to the hosting service *)

OK == [cls |-> "ok", status |-> 200, mapping |-> TRUE]

Gh(s) == [cls |-> "GithubException", status |-> s, mapping |-> TRUE]

\* A GithubException whose data is not a mapping (an error with an empty body).
GhRaw(s) == [cls |-> "GithubException", status |-> s, mapping |-> FALSE]

\* A transient transport failure: an exception that is no GithubException.
Net == [cls |-> "ConnectionError", status |-> 0, mapping |-> FALSE]

NoExc == [cls |-> "none", status |-> 0, mapping |-> FALSE]

Outcomes == {OK, Gh(404), Gh(422), Net}

\* For create_file, whose failures are all handled alike.
CreateOutcomes == {OK, Gh(422), Net}

\* For compare and create_pull, whose handler reads the exception's data.
PullOutcomes == {OK, Gh(422), GhRaw(422), Net}

IsGithubException(e) == e.cls = "GithubException"

\* One call: the operation, the file path and the branch it targets, the base
\* branch it compares or merges into, and how the hosting service answered.
Call(op, path, ref, base, out) ==
    [op |-> op, path |-> path, ref |-> ref, base |-> base, out |-> out]

AttributeError == [cls |-> "AttributeError", status |-> 0, mapping |-> FALSE]

RECURSIVE SeqsOver(_, _)
\* The sequences of at most n distinct elements of S.
SeqsOver(S, n) ==
    IF n = 0 THEN {<<>>}
    ELSE LET shorter == SeqsOver(S, n - 1)
         IN  shorter \cup
             {Append(s, x) : s \in {t \in shorter : Len(t) = n - 1},
                             x \in S}

Range(s) == {s[i] : i \in 1..Len(s)}

EditSets == {s \in SeqsOver(Paths, MaxFiles) : Cardinality(Range(s)) = Len(s)}

----------------------------------------------------------------------------
(* Results of setup_and_update_branch *)

NoResult == [kind |-> "none", succeeded |-> FALSE, message |-> "", url |-> None]

Return(ok, msg, url) ==
    [kind |-> "return", succeeded |-> ok, message |-> msg, url |-> url]

Raise == [kind |-> "raise", succeeded |-> FALSE, message |-> "", url |-> None]

MsgBranchFailed ==
    "Failed to create new branch. Please check the repository permissions and branch names."

MsgNoFiles ==
    "No files were updated. Changes might already exist in the repository."

MsgPrCreated == "Branch created, files updated, and pull request created"

MsgPrFailed ==
    "Branch created and files updated, but failed to create pull request"

MsgError == "An error occurred: e"

----------------------------------------------------------------------------
(* What the calls leave on the hosting service *)

RECURSIVE HostRefs(_, _)
\* The refs after the calls cs: create_git_ref (line 31) adds one when it
\* succeeds; a successful delete would remove it.
HostRefs(rs, cs) ==
    IF cs = <<>> THEN rs
    ELSE LET c == Head(cs)
         IN  HostRefs(IF c.out = OK /\ c.op = "create_git_ref"
                      THEN rs \cup {c.ref}
                      ELSE IF c.out = OK /\ c.op = "delete_git_ref"
                      THEN rs \ {c.ref}
                      ELSE rs,
                      Tail(cs))

RECURSIVE HostCommits(_, _)
\* The commits on the new branch after the calls cs: update_file (line 48)
\* and create_file (line 52) add one when they succeed; deleting the ref
\* drops them.
HostCommits(cm, cs) ==
    IF cs = <<>> THEN cm
    ELSE LET c == Head(cs)
         IN  HostCommits(IF c.out = OK /\ c.op \in {"update_file", "create_file"}
                         THEN Append(cm, c.path)
                         ELSE IF c.out = OK /\ c.op = "delete_git_ref"
                         THEN <<>>
                         ELSE cm,
                         Tail(cs))

----------------------------------------------------------------------------
(* create_branch, lines 17-42 *)

\* Both except clauses of create_branch print and return None.
CreateBranchHandler(e) == None

\* The calls create_branch issues and the name it returns, given the answers
\* of the default-branch lookup, get_branch and create_git_ref.
create_branch(base, oDef, oTip, oRef) ==
    LET needDef   == base = "main"
        b         == IF needDef THEN default_branch ELSE base
        defFailed == needDef /\ oDef # OK
        tipFailed == ~defFailed /\ oTip # OK
        refFailed == ~defFailed /\ ~tipFailed /\ oRef # OK
        e         == IF defFailed THEN oDef ELSE IF tipFailed THEN oTip ELSE oRef
        c1 == IF needDef
              THEN <<Call("default_branch", None, None, None, oDef)>> ELSE <<>>
        c2 == IF defFailed
              THEN <<>> ELSE <<Call("get_branch", None, b, None, oTip)>>
        c3 == IF defFailed \/ tipFailed
              THEN <<>>
              ELSE <<Call("create_git_ref", None, NewBranchName, b, oRef)>>
        failed == defFailed \/ tipFailed \/ refFailed
    IN  [calls |-> c1 \o c2 \o c3,
         name  |-> IF failed THEN CreateBranchHandler(e) ELSE NewBranchName]

----------------------------------------------------------------------------
(* update_file, lines 44-55 *)

\* The except clause of update_file: only GithubException is caught; a 404
\* falls back to create_file, any other status is printed and swallowed.
UpdateFileHandler(e) ==
    IF IsGithubException(e)
    THEN IF e.status = 404 THEN "create" ELSE "swallow"
    ELSE "propagate"

\* An update_file that reads and writes the base branch.
update_file_on_base(path, branch, oGet, oUpd, oCre) ==
    LET cGet  == Call("get_contents", path, base_branch, None, oGet)
        cUpd  == Call("update_file", path, base_branch, None, oUpd)
        cCre  == Call("create_file", path, base_branch, None, oCre)
        tried == IF oGet = OK THEN <<cGet, cUpd>> ELSE <<cGet>>
        e     == IF oGet # OK THEN oGet ELSE oUpd
    IN  IF oGet = OK /\ oUpd = OK
        THEN [calls |-> tried, wrote |-> TRUE, raised |-> NoExc]
        ELSE CASE UpdateFileHandler(e) = "create" ->
                    [calls  |-> Append(tried, cCre),
                     wrote  |-> oCre = OK,
                     raised |-> IF oCre = OK THEN NoExc ELSE oCre]
               [] UpdateFileHandler(e) = "swallow" ->
                    [calls |-> tried, wrote |-> FALSE, raised |-> NoExc]
               [] OTHER ->
                    [calls |-> tried, wrote |-> FALSE, raised |-> e]

\* The calls update_file issues, whether a commit was made, and the exception
\* that leaves it (NoExc when it returns normally).
update_file(path, branch, oGet, oUpd, oCre) ==
    LET cGet  == Call("get_contents", path, branch, None, oGet)
        cUpd  == Call("update_file", path, branch, None, oUpd)
        cCre  == Call("create_file", path, branch, None, oCre)
        tried == IF oGet = OK THEN <<cGet, cUpd>> ELSE <<cGet>>
        e     == IF oGet # OK THEN oGet ELSE oUpd
    IN  IF oGet = OK /\ oUpd = OK
        THEN [calls |-> tried, wrote |-> TRUE, raised |-> NoExc]
        ELSE CASE UpdateFileHandler(e) = "create" ->
                    [calls  |-> Append(tried, cCre),
                     wrote  |-> oCre = OK,
                     raised |-> IF oCre = OK THEN NoExc ELSE oCre]
               [] UpdateFileHandler(e) = "swallow" ->
                    [calls |-> tried, wrote |-> FALSE, raised |-> NoExc]
               [] OTHER ->
                    [calls |-> tried, wrote |-> FALSE, raised |-> e]

----------------------------------------------------------------------------
(* create_pull_request, lines 57-73 *)

\* The except clause of create_pull_request: only GithubException is caught,
\* and the handler reads e.data.get(...), which itself raises when the data
\* is not a mapping.
PullHandler(e) ==
    IF IsGithubException(e)
    THEN IF e.mapping THEN NoExc ELSE AttributeError
    ELSE e

\* create_pull_request with a clean-up of the head branch when create_pull fails.
create_pull_request_cleanup(head, base, oCmp, empty, oPull) ==
    LET cCmp  == Call("compare", None, head, base, oCmp)
        cPull == Call("create_pull", None, head, base, oPull)
        cDel  == Call("delete_git_ref", None, head, None, OK)
    IN  IF oCmp # OK
        THEN [calls |-> <<cCmp>>, pr |-> None, raised |-> PullHandler(oCmp)]
        ELSE IF empty
        THEN [calls |-> <<cCmp>>, pr |-> None, raised |-> NoExc]
        ELSE IF oPull = OK
        THEN [calls |-> <<cCmp, cPull>>, pr |-> PrUrl, raised |-> NoExc]
        ELSE [calls |-> <<cCmp, cPull, cDel>>, pr |-> None,
              raised |-> PullHandler(oPull)]

create_pull_request(head, base, oCmp, empty, oPull) ==
    LET cCmp  == Call("compare", None, head, base, oCmp)
        cPull == Call("create_pull", None, head, base, oPull)
    IN  IF oCmp # OK
        THEN [calls |-> <<cCmp>>, pr |-> None, raised |-> PullHandler(oCmp)]
        ELSE IF empty
        THEN [calls |-> <<cCmp>>, pr |-> None, raised |-> NoExc]
        ELSE IF oPull = OK
        THEN [calls |-> <<cCmp, cPull>>, pr |-> PrUrl, raised |-> NoExc]
        ELSE [calls |-> <<cCmp, cPull>>, pr |-> None,
              raised |-> PullHandler(oPull)]

----------------------------------------------------------------------------
(* Python values, as json.loads builds them *)

Str(x) == [t |-> "str", s |-> x, keys |-> <<>>, items |-> <<>>]

Null == [t |-> "null", s |-> "", keys |-> <<>>, items |-> <<>>]

List(xs) == [t |-> "list", s |-> "", keys |-> <<>>, items |-> xs]

\* A dict: its keys in insertion order and the value of each.
Dict(ks, vs) == [t |-> "dict", s |-> "", keys |-> ks, items |-> vs]

\* str(d) of a dict d: a string, different for different dicts.
PyStr(d) == [t |-> "str", s |-> "str(dict)", keys |-> d.keys, items |-> d.items]

IsDict(v) == v.t = "dict"

IsList(v) == v.t = "list"

IsStr(v) == v.t = "str"

\* k in d
Has(d, k) == \E i \in 1..Len(d.keys) : d.keys[i] = k

KeyIndex(d, k) == CHOOSE i \in 1..Len(d.keys) : d.keys[i] = k

\* d[k]
Get(d, k) == d.items[KeyIndex(d, k)]

\* d.get(k, dflt)
GetOr(d, k, dflt) == IF Has(d, k) THEN Get(d, k) ELSE dflt

\* d[k] = v
Set(d, k, v) ==
    IF Has(d, k)
    THEN Dict(d.keys, [d.items EXCEPT ![KeyIndex(d, k)] = v])
    ELSE Dict(Append(d.keys, k), Append(d.items, v))

----------------------------------------------------------------------------
(* Texts, as sequences of tokens *)

Tok(k, v) == [k |-> k, v |-> v]

LBrace == Tok("punct", "{")
RBrace == Tok("punct", "}")
LBrack == Tok("punct", "[")
RBrack == Tok("punct", "]")
Colon == Tok("punct", ":")
Comma == Tok("punct", ",")
NullTok == Tok("null", "null")
StrTok(x) == Tok("str", x)

\* Three backticks, json and a line break: what opens the pattern of line 17.
FenceOpen == Tok("fence", "backticks json newline")

\* Three backticks that open no json block.
Fence == Tok("fence", "backticks")

\* Text that is no JSON.
Junk == Tok("text", "not json at all")

RECURSIVE Render(_), RenderItems(_), RenderMembers(_, _)
\* The JSON text of a value.
Render(v) ==
    CASE v.t = "str"  -> <<StrTok(v.s)>>
      [] v.t = "null" -> <<NullTok>>
      [] v.t = "list" -> <<LBrack>> \o RenderItems(v.items) \o <<RBrack>>
      [] v.t = "dict" -> <<LBrace>> \o RenderMembers(v.keys, v.items)
                                    \o <<RBrace>>

RenderItems(xs) ==
    IF xs = <<>> THEN <<>>
    ELSE IF Len(xs) = 1 THEN Render(xs[1])
    ELSE Render(xs[1]) \o <<Comma>> \o RenderItems(Tail(xs))

RenderMembers(ks, vs) ==
    IF ks = <<>> THEN <<>>
    ELSE LET m == <<StrTok(ks[1]), Colon>> \o Render(vs[1])
         IN  IF Len(ks) = 1 THEN m
             ELSE m \o <<Comma>> \o RenderMembers(Tail(ks), Tail(vs))

----------------------------------------------------------------------------
(* json.loads *)

ParseFail == [ok |-> FALSE, val |-> Null, next |-> 0]

Parsed(v, n) == [ok |-> TRUE, val |-> v, next |-> n]

RECURSIVE ParseValue(_, _), ParseElements(_, _, _), ParseMembers(_, _, _)
\* The value that starts at token i, and the position after it.
ParseValue(ts, i) ==
    IF i > Len(ts) THEN ParseFail
    ELSE CASE ts[i].k = "str"  -> Parsed(Str(ts[i].v), i + 1)
           [] ts[i].k = "null" -> Parsed(Null, i + 1)
           [] ts[i] = LBrack ->
                IF i + 1 <= Len(ts) /\ ts[i + 1] = RBrack
                THEN Parsed(List(<<>>), i + 2)
                ELSE ParseElements(ts, i + 1, <<>>)
           [] ts[i] = LBrace ->
                IF i + 1 <= Len(ts) /\ ts[i + 1] = RBrace
                THEN Parsed(Dict(<<>>, <<>>), i + 2)
                ELSE ParseMembers(ts, i + 1, Dict(<<>>, <<>>))
           [] OTHER -> ParseFail

ParseElements(ts, i, acc) ==
    LET r == ParseValue(ts, i)
    IN  IF ~r.ok \/ r.next > Len(ts) THEN ParseFail
        ELSE IF ts[r.next] = Comma
        THEN ParseElements(ts, r.next + 1, Append(acc, r.val))
        ELSE IF ts[r.next] = RBrack
        THEN Parsed(List(Append(acc, r.val)), r.next + 1)
        ELSE ParseFail

ParseMembers(ts, i, d) ==
    IF i + 1 > Len(ts) \/ ts[i].k # "str" \/ ts[i + 1] # Colon THEN ParseFail
    ELSE LET r == ParseValue(ts, i + 2)
         IN  IF ~r.ok \/ r.next > Len(ts) THEN ParseFail
             ELSE IF ts[r.next] = Comma
             THEN ParseMembers(ts, r.next + 1, Set(d, ts[i].v, r.val))
             ELSE IF ts[r.next] = RBrace
             THEN Parsed(Set(d, ts[i].v, r.val), r.next + 1)
             ELSE ParseFail

\* json.loads(ts): the value when the whole text is one JSON value,
\* JSONDecodeError (ok = FALSE) otherwise.
json_loads(ts) ==
    LET r == ParseValue(ts, 1)
    IN  IF r.ok /\ r.next = Len(ts) + 1 THEN r ELSE ParseFail

----------------------------------------------------------------------------
(* parse_ai_response, lines 11-39 *)

NoMatch == [found |-> FALSE, group1 |-> <<>>]

\* The re.search of line 17, non-greedy and DOTALL: the leftmost opening
\* fence with the json tag that has three backticks somewhere after it, up to
\* the nearest such three backticks (which may open another fenced block).
FindFenced(ts) ==
    LET opens == {i \in 1..Len(ts) :
                    /\ ts[i] = FenceOpen
                    /\ \E j \in (i + 1)..Len(ts) : ts[j].k = "fence"}
    IN  IF opens = {} THEN NoMatch
        ELSE LET i == CHOOSE a \in opens : \A b \in opens : a <= b
                 j == CHOOSE a \in (i + 1)..Len(ts) :
                        /\ ts[a].k = "fence"
                        /\ \A b \in (i + 1)..(a - 1) : ts[b].k # "fence"
             IN  [found |-> TRUE, group1 |-> SubSeq(ts, i + 1, j - 1)]

\* Lines 13-24: the value parsed from the response, or the ValueError.
ParseText(ts) ==
    LET direct == json_loads(ts)
        m      == FindFenced(ts)
        inner  == json_loads(m.group1)
    IN  IF direct.ok THEN [ok |-> TRUE, val |-> direct.val, from |-> "direct"]
        ELSE IF m.found /\ inner.ok
        THEN [ok |-> TRUE, val |-> inner.val, from |-> "fenced"]
        ELSE [ok |-> FALSE, val |-> Null, from |-> "none"]

\* Lines 27-28 on a dict d.
NormalizeIssueAnalysis(d) ==
    IF Has(d, "issue_analysis") /\ IsDict(Get(d, "issue_analysis"))
    THEN Set(d, "issue_analysis",
             GetOr(Get(d, "issue_analysis"), "description",
                   PyStr(Get(d, "issue_analysis"))))
    ELSE d

\* The coercion without the isinstance test, which wraps a list again.
EnsureListAlways(d, field) ==
    IF Has(d, field)
    THEN Set(d, field, List(<<Get(d, field)>>))
    ELSE d

\* The coercion written with a truthiness test, which skips a null field.
EnsureListTruthy(d, field) ==
    IF Has(d, field) /\ Get(d, field) # Null /\ ~IsList(Get(d, field))
    THEN Set(d, field, List(<<Get(d, field)>>))
    ELSE d

\* Lines 32-33 and 36-37 for one field.
EnsureList(d, field) ==
    IF Has(d, field) /\ ~IsList(Get(d, field))
    THEN Set(d, field, List(<<Get(d, field)>>))
    ELSE d

ListFields == <<"dependencies", "potential_challenges", "documentation_updates">>

\* Lines 31-33.
EnsureLists(d) ==
    EnsureList(EnsureList(EnsureList(d, ListFields[1]), ListFields[2]),
               ListFields[3])

\* Lines 36-37.
EnsureSubtasks(d) == EnsureList(d, "subtasks")

\* Lines 26-37 on a dict d.
Normalize(d) == EnsureSubtasks(EnsureLists(NormalizeIssueAnalysis(d)))

----------------------------------------------------------------------------
(* the ResolutionPlan constructor: the schema of models.py *)

NoPlan == [st |-> "none", val |-> Null]

ValidationError == [st |-> "ValidationError", val |-> Null]

SubtaskKeys == <<"description", "estimated_time">>

\* A str field accepts a string and nothing else of what JSON holds.
ValidStr(v) == IsStr(v)

\* A List[str] field.
ValidStrList(v) ==
    IsList(v) /\ \A i \in 1..Len(v.items) : ValidStr(v.items[i])

\* A Subtask validated from a dict that has any keys at all.
ValidSubtaskAnyKeys(v) == IsDict(v)

\* models.py lines 4-6: both fields of a Subtask are required strings.
ValidSubtask(v) ==
    /\ IsDict(v)
    /\ \A i \in 1..Len(SubtaskKeys) :
           Has(v, SubtaskKeys[i]) /\ ValidStr(Get(v, SubtaskKeys[i]))

\* The Subtask built from a dict: its two fields, whatever else the dict has.
SubtaskOf(v) ==
    Dict(SubtaskKeys, [i \in 1..Len(SubtaskKeys) |->
                          GetOr(v, SubtaskKeys[i], Null)])

\* A List[Subtask] field; no length is asked for.
ValidSubtaskList(v) ==
    IsList(v) /\ \A i \in 1..Len(v.items) : ValidSubtask(v.items[i])

PlanKeys == <<"issue_analysis", "subtasks", "dependencies",
              "potential_challenges", "testing_strategy",
              "documentation_updates">>

\* models.py lines 9-14: what each field of a ResolutionPlan accepts.
ValidField(k, v) ==
    CASE k \in {"issue_analysis", "testing_strategy"} -> ValidStr(v)
      [] k = "subtasks" -> ValidSubtaskList(v)
      [] OTHER -> ValidStrList(v)

\* ResolutionPlan on the keywords of d: every field is required; other keys are ignored.
ResolutionPlan(d) ==
    IF \A i \in 1..Len(PlanKeys) :
           Has(d, PlanKeys[i]) /\ ValidField(PlanKeys[i], Get(d, PlanKeys[i]))
    THEN [st |-> "plan",
          val |-> Dict(PlanKeys,
                       [i \in 1..Len(PlanKeys) |->
                           IF PlanKeys[i] = "subtasks"
                           THEN List([j \in 1..Len(Get(d, "subtasks").items)
                                        |-> SubtaskOf(Get(d, "subtasks").items[j])])
                           ELSE Get(d, PlanKeys[i])])]
    ELSE ValidationError

----------------------------------------------------------------------------
(* The responses parse_ai_response is run on *)

MaxNest == 2

Scalars == {Str("text")}

Wrap(v) == {Dict(<<"description">>, <<v>>), Dict(<<"summary">>, <<v>>),
            List(<<v>>)}

RECURSIVE Nested(_)
\* The values nested at most n deep.
Nested(n) ==
    IF n = 0 THEN Scalars
    ELSE Scalars \cup UNION {Wrap(v) : v \in Nested(n - 1)}

Absent == [t |-> "absent", s |-> "", keys |-> <<>>, items |-> <<>>]

ASubtask == Dict(<<"description", "estimated_time">>,
                 <<Str("update readme"), Str("1h")>>)

FieldValues == {Absent, Str("text"), Null, List(<<Str("text")>>)}

SubtaskValues == {Absent, ASubtask, List(<<ASubtask>>), List(<<>>)}

RECURSIVE MakeDict(_, _)
\* The dict of the given keys and values, without the absent ones.
MakeDict(ks, vs) ==
    IF ks = <<>> THEN Dict(<<>>, <<>>)
    ELSE LET rest == MakeDict(Tail(ks), Tail(vs))
         IN  IF vs[1] = Absent THEN rest
             ELSE Dict(<<ks[1]>> \o rest.keys, <<vs[1]>> \o rest.items)

\* Subtasks as plans carry them: the keys in either order, an empty
\* description, a missing description.
BSubtask == Dict(<<"estimated_time", "description">>,
                 <<Str("2h"), Str("create test file for app")>>)

EmptySubtask == Dict(SubtaskKeys, <<Str(""), Str("1h")>>)

UndescribedSubtask == Dict(<<"estimated_time">>, <<Str("1h")>>)

\* Payloads that have all six fields, with lists where lists are asked for.
PlanPayloads ==
    {MakeDict(PlanKeys, <<Str("text"), List(st), List(dep),
                          List(<<Str("text")>>), Str("pytest"), List(du)>>) :
        st \in {<<>>, <<ASubtask>>, <<ASubtask, BSubtask>>,
                <<BSubtask, ASubtask>>, <<EmptySubtask>>,
                <<UndescribedSubtask>>},
        dep \in {<<>>, <<Str("text")>>, <<Str("text"), Str("other")>>},
        du \in {<<>>, <<Str("text")>>}}

Payloads ==
    PlanPayloads \cup
    {MakeDict(PlanKeys, <<ia, st, dep, pc1, ts, du>>) :
        ia \in Nested(MaxNest) \cup {Absent, Null},
        st \in SubtaskValues,
        dep \in FieldValues,
        pc1 \in {Absent, Dict(<<"risk">>, <<Str("text")>>)},
        ts \in {Str("pytest")},
        du \in {Absent, Str("text")}}
    \cup {Null, Str("text"), List(<<>>), List(<<ASubtask>>)}

\* The texts around a payload: bare, fenced, fenced inside prose, with a
\* fence that lacks the json tag, cut short, and two fenced blocks in a row.
TextsOf(v) ==
    LET body == Render(v)
        cut  == SubSeq(body, 1, Len(body) - 1)
    IN  {body,
         <<FenceOpen>> \o body \o <<Fence>>,
         <<Junk, FenceOpen>> \o body \o <<Fence, Junk>>,
         <<Fence>> \o body \o <<Fence>>,
         cut,
         <<FenceOpen>> \o cut \o <<Fence>>,
         <<FenceOpen>> \o body \o <<FenceOpen>> \o cut \o <<Fence>>,
         <<Junk>>}

Responses == UNION {TextsOf(v) : v \in Payloads}

ParseIdle ==
    /\ response = <<>>
    /\ p_pc = "idle"
    /\ data = Null
    /\ outcome = "none"
    /\ plan = NoPlan

ParseInit ==
    /\ response \in Responses
    /\ p_pc = "parse"
    /\ data = Null
    /\ outcome = "none"
    /\ plan = NoPlan

\* Lines 13-24.
ParseResponse ==
    /\ p_pc = "parse"
    /\ LET r == ParseText(response)
       IN  IF r.ok
           THEN /\ data' = r.val
                /\ p_pc' = "issue_analysis"
                /\ UNCHANGED outcome
           ELSE /\ outcome' = "ValueError"
                /\ p_pc' = "done"
                /\ UNCHANGED data
    /\ UNCHANGED <<response, plan, pubVars, modVars, csVars, reqVars>>

\* Lines 26-28; data.get raises AttributeError when data is no dict.
HandleIssueAnalysis ==
    /\ p_pc = "issue_analysis"
    /\ IF IsDict(data)
       THEN /\ data' = NormalizeIssueAnalysis(data)
            /\ p_pc' = "lists"
            /\ UNCHANGED outcome
       ELSE /\ outcome' = "AttributeError"
            /\ p_pc' = "done"
            /\ UNCHANGED data
    /\ UNCHANGED <<response, plan, pubVars, modVars, csVars, reqVars>>

\* Lines 30-33.
HandleLists ==
    /\ p_pc = "lists"
    /\ data' = EnsureLists(data)
    /\ p_pc' = "subtasks"
    /\ UNCHANGED <<response, outcome, plan, pubVars, modVars, csVars, reqVars>>

\* Lines 35-39.
HandleSubtasks ==
    /\ p_pc = "subtasks"
    /\ data' = EnsureSubtasks(data)
    /\ outcome' = "return"
    /\ p_pc' = "done"
    /\ UNCHANGED <<response, plan, pubVars, modVars, csVars, reqVars>>

\* main.py line 181: plan = the ResolutionPlan constructor on what was returned.
ConstructPlan ==
    /\ p_pc = "done"
    /\ outcome = "return"
    /\ plan' = ResolutionPlan(data)
    /\ p_pc' = "constructed"
    /\ UNCHANGED <<response, data, outcome, pubVars, modVars, csVars, reqVars>>

NextParse ==
    \/ ParseResponse
    \/ HandleIssueAnalysis
    \/ HandleLists
    \/ HandleSubtasks
    \/ ConstructPlan

----------------------------------------------------------------------------
(* Texts of modify_files: descriptions and paths as sequences of pieces, *)
(* file contents as sequences of blocks                                   *)

\* What separates words; every other piece is a run of word characters.
Separators == {" ", ".", ","}

IsWord(p) == p \notin Separators

\* str.lower() on one piece.
LowerPiece(p) ==
    CASE p = "Create" -> "create"
      [] p = "Test"   -> "test"
      [] p = "File"   -> "file"
      [] p = "Update" -> "update"
      [] p = "README" -> "readme"
      [] p = "App"    -> "app"
      [] p = "For"    -> "for"
      [] OTHER        -> p

\* str.lower()
Lower(t) == [i \in 1..Len(t) |-> LowerPiece(t[i])]

\* needle in hay
Contains(hay, needle) ==
    \E i \in 0..(Len(hay) - Len(needle)) :
        \A k \in 1..Len(needle) : hay[i + k] = needle[k]

RECURSIVE WordRun(_, _)
\* The match of \w+ at position i: the pieces of the word that starts there.
WordRun(t, i) ==
    IF i > Len(t) \/ ~IsWord(t[i]) THEN <<>>
    ELSE <<t[i]>> \o WordRun(t, i + 1)

\* The positions where the pattern "for (\w+)" matches.
ForMatches(t) ==
    {i \in 1..Len(t) :
        /\ i + 2 <= Len(t)
        /\ t[i] = "for"
        /\ t[i + 1] = " "
        /\ IsWord(t[i + 2])}

Min(S) == CHOOSE x \in S : \A y \in S : x <= y

KwCreateTestFile == <<"create", " ", "test", " ", "file">>

KwUpdateReadme == <<"update", " ", "readme">>

KwUpdateReadmeMd == <<"update", " ", "readme", ".", "md">>

ReadmePath == <<"README", ".", "md">>

AppPath == <<"app", ".", "py">>

TestAppPath == <<"test_", "app", ".", "py">>

Block(k) == [k |-> k, id |-> <<>>, d |-> <<>>]

\* A line break at the start or the end of a text.
Newline == Block("newline")

\* A line of three backticks, with or without a language after them.
CodeFence == Block("code fence")

RunningTestsHeading == Block("## Running Tests")

\* The section lines 343 and 347 write: heading, steps, a fenced pytest.
RunningTestsSection ==
    <<RunningTestsHeading, Block("steps to run the tests"), CodeFence,
      Block("pytest"), CodeFence, Block("This will execute all the tests")>>

\* An update_readme that appends the section whatever the content holds.
update_readme_always(content, description) == content \o RunningTestsSection

\* Lines 340-344.
update_readme(content, description) ==
    IF ~Contains(content, <<RunningTestsHeading>>)
    THEN content \o RunningTestsSection
    ELSE content

\* Lines 346-347.
create_readme(description) ==
    <<Block("# Project Name"), Block("## Description"),
      Block("This project is a work in progress.")>> \o RunningTestsSection

NoFile == [found |-> FALSE, path |-> <<>>, content |-> <<>>]

\* The file of lines 229-239 for the identifier the pattern captured.
TestFile(api_file_name, description) ==
    [found |-> TRUE,
     path |-> <<"test_">> \o api_file_name \o <<".", "py">>,
     content |-> <<Block("import pytest"),
                   [k |-> "from import app", id |-> api_file_name, d |-> <<>>],
                   [k |-> "def test endpoints", id |-> api_file_name,
                    d |-> <<>>],
                   [k |-> "TODO", id |-> <<>>, d |-> description],
                   Block("pass")>>]

\* A create_test_file whose pattern is matched without regard to case.
create_test_file_ignorecase(description) ==
    LET ms == ForMatches(Lower(description))
    IN  IF ms # {}
        THEN TestFile(WordRun(description, Min(ms) + 2), description)
        ELSE NoFile

\* Lines 224-240: re.search takes the first match in the description as given.
create_test_file(description) ==
    LET ms == ForMatches(description)
    IN  IF ms # {}
        THEN TestFile(WordRun(description, Min(ms) + 2), description)
        ELSE NoFile

\* The branches of lines 124-141 with the readme test placed first.
RouteReadmeFirst(description) ==
    IF Contains(description, KwUpdateReadme)
       \/ Contains(description, KwUpdateReadmeMd)
    THEN "update_readme"
    ELSE IF Contains(description, KwCreateTestFile) THEN "create_test_file"
    ELSE "generic"

\* Lines 124, 130 and 141 on the lower-cased description: if, elif, else.
Route(description) ==
    IF Contains(description, KwCreateTestFile) THEN "create_test_file"
    ELSE IF Contains(description, KwUpdateReadme)
            \/ Contains(description, KwUpdateReadmeMd)
    THEN "update_readme"
    ELSE "generic"

\* str.strip(): line breaks at either end go.
RECURSIVE Strip(_)
Strip(c) ==
    IF c = <<>> THEN c
    ELSE IF Head(c) = Newline THEN Strip(Tail(c))
    ELSE IF c[Len(c)] = Newline THEN Strip(SubSeq(c, 1, Len(c) - 1))
    ELSE c

\* Line 194: re.sub drops every fence line, wherever in the text it stands.
StripFences(c) == SelectSeq(c, LAMBDA b : b # CodeFence)

\* What the model wrote for a change: the content with the change made.
Edited(content, description) ==
    Strip(content) \o <<[k |-> "edit", id |-> <<>>, d |-> description]>>

\* The replies of the text-generation service, and its failure.
GenOutcomes == {"same", "edited", "edited in a fence", "raise"}

\* response.choices[0].message.content for a reply of the given kind.
Reply(o, content, description) ==
    CASE o = "same" -> content
      [] o = "edited" -> Edited(content, description) \o <<Newline>>
      [] o = "edited in a fence" ->
            <<CodeFence>> \o Edited(content, description) \o <<CodeFence>>

\* Lines 193-195 on the reply.
implement_changes_with_openai(o, content, description) ==
    Strip(StripFences(Strip(Reply(o, content, description))))

\* file_contents and modified_files: pairs of path and content, in key order.
Entry(path, content) == [path |-> path, content |-> content]

KeysOf(fc) == {fc[i].path : i \in 1..Len(fc)}

\* fc[path]
ContentOf(fc, path) ==
    fc[CHOOSE i \in 1..Len(fc) : fc[i].path = path].content

\* fc[path] = content
Put(fc, path, content) ==
    IF path \in KeysOf(fc)
    THEN [i \in 1..Len(fc) |->
             IF fc[i].path = path THEN Entry(path, content) ELSE fc[i]]
    ELSE Append(fc, Entry(path, content))

MCall(fn, i, path, arg, ret, out) ==
    [fn |-> fn, i |-> i, path |-> path, arg |-> arg, ret |-> ret, out |-> out]

----------------------------------------------------------------------------
(* The plans and repositories modify_files is run on *)

MaxSubtasks == 2

DescTestForApp ==
    <<"create", " ", "test", " ", "file", " ", "for", " ", "app">>

DescTestForWidgets ==
    <<"Create", " ", "Test", " ", "File", " ", "for", " ", "widgets", " ",
      "and", " ", "for", " ", "app">>

DescTestCapitalFor ==
    <<"create", " ", "test", " ", "file", " ", "For", " ", "app">>

DescTestNoIdentifier ==
    <<"create", " ", "test", " ", "file", ",", " ", "update", " ", "readme",
      " ", "in", " ", "app", ".", "py">>

DescUpdateReadme == <<"update", " ", "readme">>

DescUpdateReadmeAndApp ==
    <<"Update", " ", "README", ".", "md", " ", "and", " ", "app", ".", "py">>

DescModifyApp == <<"modify", " ", "app", ".", "py">>

DescRefactorBoth ==
    <<"refactor", " ", "App", ".", "py", " ", "and", " ", "README", ".", "md">>

DescTidyDocs == <<"tidy", " ", "the", " ", "docs">>

DescModifyTestApp == <<"modify", " ", "test_", "app", ".", "py">>

Descriptions ==
    {DescTestForApp, DescTestForWidgets, DescTestCapitalFor,
     DescTestNoIdentifier, DescUpdateReadme, DescUpdateReadmeAndApp,
     DescModifyApp, DescRefactorBoth, DescTidyDocs, DescModifyTestApp}

Plans == SeqsOver(Descriptions, MaxSubtasks)

AppSource == <<Block("app code"), Newline>>

PlainReadme == <<Block("# Title"), Newline>>

\* The contents a README.md is found with: absent, without and with the
\* section, as create_readme writes it, and as update_readme left it.
ReadmeContents ==
    {<<>>, PlainReadme, <<Block("# Title"), RunningTestsHeading>>,
     create_readme(<<>>), update_readme(PlainReadme, <<>>)}

\* The contents a test_app.py is found with: absent, tests written by hand,
\* and the file create_test_file wrote for one of the descriptions.
TestAppContents ==
    {<<>>, <<Block("tests written by hand"), Newline>>}
    \cup {create_test_file(d).content :
            d \in {e \in Descriptions :
                      create_test_file(e).path = TestAppPath}}

\* The dict of the given paths and contents, without the absent files.
FileContents(readme, app, test_app) ==
    SelectSeq(<<Entry(ReadmePath, readme), Entry(AppPath, app),
                Entry(TestAppPath, test_app)>>,
              LAMBDA e : e.content # <<>>)

IndexJsPath == <<"index", ".", "js">>

ServerTsPath == <<"server", ".", "ts">>

JsSource == <<Block("script code"), Newline>>

\* Repositories that hold scripts: scripts only, and scripts next to app.py.
JsRepositories ==
    {<<Entry(IndexJsPath, JsSource), Entry(ServerTsPath, JsSource)>>,
     <<Entry(AppPath, AppSource), Entry(IndexJsPath, JsSource),
       Entry(ServerTsPath, JsSource)>>}

Repositories ==
    {FileContents(r, a, t) :
        r \in ReadmeContents, a \in {<<>>, AppSource}, t \in TestAppContents}
    \cup JsRepositories

ModIdle ==
    /\ m_plan = <<>>
    /\ file_contents = <<>>
    /\ m_modified_files = <<>>
    /\ m_pc = "idle"
    /\ m_i = 0
    /\ m_j = 0
    /\ m_calls = <<>>
    /\ m_result = "none"

\* Lines 116-117.
ModInit ==
    /\ m_plan \in Plans
    /\ file_contents \in Repositories
    /\ m_modified_files = <<>>
    /\ m_pc = "start"
    /\ m_i = 0
    /\ m_j = 0
    /\ m_calls = <<>>
    /\ m_result = "none"

\* Line 118: get_openai_client raises ValueError when no API key is set.
GetClient ==
    /\ m_pc = "start"
    /\ \E o \in {"client", "ValueError"} :
          /\ m_calls' = Append(m_calls, MCall("get_openai_client", 0, <<>>,
                                              <<>>, <<>>, o))
          /\ IF o = "client"
             THEN /\ m_pc' = "subtask"
                  /\ m_i' = 1
                  /\ UNCHANGED m_result
             ELSE /\ m_pc' = "done"
                  /\ m_result' = "raise"
                  /\ UNCHANGED m_i
    /\ UNCHANGED <<m_plan, file_contents, m_modified_files, m_j, pubVars,
                   parseVars, csVars, reqVars>>

\* Lines 124-129.
CreateTestFileSubtask ==
    /\ m_pc = "subtask"
    /\ m_i <= Len(m_plan)
    /\ Route(Lower(m_plan[m_i])) = "create_test_file"
    /\ LET new_test_file == create_test_file(m_plan[m_i])
       IN  /\ m_calls' = Append(m_calls,
                                MCall("create_test_file", m_i,
                                      new_test_file.path, m_plan[m_i],
                                      new_test_file.content, "ok"))
           /\ m_modified_files' =
                 IF new_test_file.found
                 THEN Put(m_modified_files, new_test_file.path,
                          new_test_file.content)
                 ELSE m_modified_files
    /\ m_i' = m_i + 1
    /\ UNCHANGED <<m_plan, file_contents, m_pc, m_j, m_result, pubVars,
                   parseVars, csVars, reqVars>>

\* Lines 130-140.
UpdateReadmeSubtask ==
    /\ m_pc = "subtask"
    /\ m_i <= Len(m_plan)
    /\ Route(Lower(m_plan[m_i])) = "update_readme"
    /\ IF ReadmePath \in KeysOf(file_contents)
       THEN LET content == ContentOf(file_contents, ReadmePath)
                updated_content == update_readme(content, m_plan[m_i])
            IN  /\ m_calls' = Append(m_calls,
                                     MCall("update_readme", m_i, ReadmePath,
                                           content, updated_content, "ok"))
                /\ m_modified_files' =
                      IF updated_content # content
                      THEN Put(m_modified_files, ReadmePath, updated_content)
                      ELSE m_modified_files
       ELSE /\ m_calls' = Append(m_calls,
                                 MCall("create_readme", m_i, ReadmePath,
                                       <<>>, create_readme(m_plan[m_i]),
                                       "ok"))
            /\ m_modified_files' = Put(m_modified_files, ReadmePath,
                                       create_readme(m_plan[m_i]))
    /\ m_i' = m_i + 1
    /\ UNCHANGED <<m_plan, file_contents, m_pc, m_j, m_result, pubVars,
                   parseVars, csVars, reqVars>>

\* Lines 141-142: the else branch enters the loop over file_contents.
GenericSubtask ==
    /\ m_pc = "subtask"
    /\ m_i <= Len(m_plan)
    /\ Route(Lower(m_plan[m_i])) = "generic"
    /\ m_pc' = "files"
    /\ m_j' = 1
    /\ UNCHANGED <<m_plan, file_contents, m_modified_files, m_i, m_calls,
                   m_result, pubVars, parseVars, csVars, reqVars>>

\* Lines 143-150 for one file; nothing catches what the call raises.
EditNextFile ==
    /\ m_pc = "files"
    /\ m_j <= Len(file_contents)
    /\ LET file_path == file_contents[m_j].path
           content   == file_contents[m_j].content
       IN  IF Contains(Lower(m_plan[m_i]), Lower(file_path))
           THEN \E o \in GenOutcomes :
                   IF o = "raise"
                   THEN /\ m_calls' = Append(m_calls,
                               MCall("implement_changes_with_openai", m_i,
                                     file_path, content, <<>>, "raise"))
                        /\ m_pc' = "done"
                        /\ m_result' = "raise"
                        /\ UNCHANGED <<m_modified_files, m_j>>
                   ELSE LET modified_content ==
                                implement_changes_with_openai(o, content,
                                                              m_plan[m_i])
                        IN  /\ m_calls' = Append(m_calls,
                                   MCall("implement_changes_with_openai",
                                         m_i, file_path, content,
                                         modified_content, "ok"))
                            /\ m_modified_files' =
                                  IF modified_content # content
                                  THEN Put(m_modified_files, file_path,
                                           modified_content)
                                  ELSE m_modified_files
                            /\ m_j' = m_j + 1
                            /\ UNCHANGED <<m_pc, m_result>>
           ELSE /\ m_j' = m_j + 1
                /\ UNCHANGED <<m_modified_files, m_calls, m_pc, m_result>>
    /\ UNCHANGED <<m_plan, file_contents, m_i, pubVars, parseVars, csVars, reqVars>>

\* Line 142 once every file was seen: on to the next subtask.
NextSubtask ==
    /\ m_pc = "files"
    /\ m_j > Len(file_contents)
    /\ m_pc' = "subtask"
    /\ m_i' = m_i + 1
    /\ UNCHANGED <<m_plan, file_contents, m_modified_files, m_j, m_calls,
                   m_result, pubVars, parseVars, csVars, reqVars>>

\* Lines 152-166.
ModifyReturn ==
    /\ m_pc = "subtask"
    /\ m_i > Len(m_plan)
    /\ m_pc' = "done"
    /\ m_result' = "return"
    /\ UNCHANGED <<m_plan, file_contents, m_modified_files, m_i, m_j,
                   m_calls, pubVars, parseVars, csVars, reqVars>>

NextModify ==
    \/ GetClient
    \/ CreateTestFileSubtask
    \/ UpdateReadmeSubtask
    \/ GenericSubtask
    \/ EditNextFile
    \/ NextSubtask
    \/ ModifyReturn

----------------------------------------------------------------------------
(* setup_and_test_codespace, codespace_utils.py lines 47-110; times in seconds *)

RETRY_DELAY == 5

READY_TIMEOUT == 600

READY_POLL == 15

COMMAND_POLL == 2

\* The longest a command is left unfinished before the service ends it.
MaxElapsed == 610

\* How long make_github_request takes: at once, or after one retry.
Durations == {0, RETRY_DELAY}

\* What a request ends with: the response, or the exception of the last try.
RequestOutcomes == {"response", "raise"}

CsResult(success, output) ==
    [kind |-> "return", success |-> success, output |-> output]

\* An exception that leaves setup_and_test_codespace.
CsRaised == [kind |-> "raise", success |-> FALSE, output |-> "raised"]

CsNoResult == [kind |-> "none", success |-> FALSE, output |-> "none"]

\* Lines 106-107: except Exception.
CsHandler == CsResult(FALSE, "An error occurred")

\* A delete_codespace without its try: what the request raises leaves it.
DeleteHandlerMissing(o) == IF o = "raise" THEN "propagate" ELSE "return"

\* Lines 116-122: delete_codespace returns True, or False after an exception.
DeleteHandler(o) == "return"

CsIdle ==
    /\ cs_pc = "idle"
    /\ elapsed = 0
    /\ command = 0
    /\ codespace = "unbound"
    /\ cs_result = CsNoResult
    /\ deletes = <<>>

\* Line 87.
CsInit ==
    /\ cs_pc = "create"
    /\ elapsed = 0
    /\ command = 0
    /\ codespace = "unbound"
    /\ cs_result = CsNoResult
    /\ deletes = <<>>

\* Lines 90 and 34-45: create_codespace returns the codespace, or raises: when
\* the request fails, and at line 44 when the response holds no name. What it
\* returns is a mapping with a name, so the test of line 91 never succeeds.
CreateCodespace ==
    /\ cs_pc = "create"
    /\ \E o \in {"codespace", "no name", "raise"} :
          IF o = "codespace"
          THEN /\ codespace' = "created"
               /\ cs_pc' = "wait_get"
               /\ UNCHANGED cs_result
          ELSE /\ cs_result' = CsHandler
               /\ cs_pc' = "finally"
               /\ UNCHANGED codespace
    /\ UNCHANGED <<elapsed, command, deletes, pubVars, parseVars, modVars, reqVars>>

\* Lines 50-59: start_time is taken, then each round asks for the state; the
\* round returns on ready, and on a wait that has lasted more than the ceiling.
WaitPoll ==
    /\ cs_pc = "wait_get"
    /\ \E d \in Durations, o \in {"ready", "pending", "raise"} :
          /\ elapsed' = elapsed + d
          /\ CASE o = "raise" ->
                     /\ cs_result' = CsHandler
                     /\ cs_pc' = "finally"
                     /\ UNCHANGED command
               [] o = "ready" ->
                     /\ cs_pc' = "command_post"
                     /\ command' = 1
                     /\ UNCHANGED cs_result
               [] o = "pending" ->
                     IF elapsed + d > READY_TIMEOUT
                     THEN /\ cs_result' =
                               CsResult(FALSE, "Codespace failed to become ready")
                          /\ cs_pc' = "finally"
                          /\ UNCHANGED command
                     ELSE /\ cs_pc' = "wait_sleep"
                          /\ UNCHANGED <<cs_result, command>>
    /\ UNCHANGED <<codespace, deletes, pubVars, parseVars, modVars, reqVars>>

\* Lines 60-61: time.sleep(15).
WaitSleep ==
    /\ cs_pc = "wait_sleep"
    /\ elapsed' = elapsed + READY_POLL
    /\ cs_pc' = "wait_get"
    /\ UNCHANGED <<command, codespace, cs_result, deletes, pubVars, parseVars,
                   modVars, reqVars>>

\* Lines 66-72: the command is posted; the time polled is counted from here.
CommandPost ==
    /\ cs_pc = "command_post"
    /\ \E o \in RequestOutcomes :
          IF o = "raise"
          THEN /\ cs_result' = CsHandler
               /\ cs_pc' = "finally"
               /\ UNCHANGED elapsed
          ELSE /\ elapsed' = 0
               /\ cs_pc' = "command_get"
               /\ UNCHANGED cs_result
    /\ UNCHANGED <<command, codespace, deletes, pubVars, parseVars, modVars, reqVars>>

\* Lines 76-79: while True with no test of the time.
CommandPoll ==
    /\ cs_pc = "command_get"
    /\ \E d \in Durations, o \in {"completed", "running", "raise"} :
          /\ o = "running" => elapsed + d <= MaxElapsed
          /\ elapsed' = elapsed + d
          /\ CASE o = "raise" ->
                     /\ cs_result' = CsHandler
                     /\ cs_pc' = "finally"
               [] o = "completed" ->
                     /\ cs_pc' = "command_output"
                     /\ UNCHANGED cs_result
               [] o = "running" ->
                     /\ cs_pc' = "command_sleep"
                     /\ UNCHANGED cs_result
    /\ UNCHANGED <<command, codespace, deletes, pubVars, parseVars, modVars, reqVars>>

\* Line 80: time.sleep(2).
CommandSleep ==
    /\ cs_pc = "command_sleep"
    /\ elapsed' = elapsed + COMMAND_POLL
    /\ cs_pc' = "command_get"
    /\ UNCHANGED <<command, codespace, cs_result, deletes, pubVars, parseVars,
                   modVars, reqVars>>

\* Lines 82-85 and 97-104: the output is fetched and True returned with it;
\* after the first command the second is run, after the second the call ends.
CommandOutput ==
    /\ cs_pc = "command_output"
    /\ \E o \in RequestOutcomes :
          IF o = "raise"
          THEN /\ cs_result' = CsHandler
               /\ cs_pc' = "finally"
               /\ UNCHANGED command
          ELSE IF command = 1
          THEN /\ command' = 2
               /\ cs_pc' = "command_post"
               /\ UNCHANGED cs_result
          ELSE /\ cs_result' = CsResult(TRUE, "output of pytest")
               /\ cs_pc' = "finally"
               /\ UNCHANGED command
    /\ UNCHANGED <<elapsed, codespace, deletes, pubVars, parseVars, modVars, reqVars>>

\* Lines 108-110 and 112-122: the finally clause deletes the codespace when
\* the local is bound, and the result already chosen is handed to the caller.
Cleanup ==
    /\ cs_pc = "finally"
    /\ IF codespace = "unbound"
       THEN UNCHANGED <<deletes, cs_result>>
       ELSE \E o \in RequestOutcomes :
               /\ deletes' = Append(deletes, o)
               /\ IF DeleteHandler(o) = "propagate"
                  THEN cs_result' = CsRaised
                  ELSE UNCHANGED cs_result
    /\ cs_pc' = "done"
    /\ UNCHANGED <<elapsed, command, codespace, pubVars, parseVars, modVars, reqVars>>

NextCodespace ==
    \/ CreateCodespace
    \/ WaitPoll
    \/ WaitSleep
    \/ CommandPost
    \/ CommandPoll
    \/ CommandSleep
    \/ CommandOutput
    \/ Cleanup

----------------------------------------------------------------------------
(* make_github_request, codespace_utils.py lines 16-32 *)

MaxRetriesArg == 4

\* What one requests.request plus raise_for_status gives: the response, or a
\* RequestException from the connection or from the status.
AttemptOutcomes == {"response", "ConnectionError", "HTTPError"}

ReqNoResult == [kind |-> "none", e |-> "none"]

ReqResponse == [kind |-> "response", e |-> "none"]

ReqRaise(e) == [kind |-> "raise", e |-> e]

\* The loop of line 23 ran out without a return or a raise.
ReqNone == [kind |-> "None", e |-> "none"]

RECURSIVE Pow2(_)
Pow2(n) == IF n = 0 THEN 1 ELSE 2 * Pow2(n - 1)

\* A delay that doubles with every attempt.
DelayBackoff(n) == RETRY_DELAY * Pow2(n)

\* Line 32: time.sleep(RETRY_DELAY), whatever the attempt.
Delay(n) == RETRY_DELAY

\* Line 29: attempt == max_retries - 1.
LastAttempt(n, m) == n = m - 1

ReqIdle ==
    /\ r_pc = "idle"
    /\ max_retries = 0
    /\ attempt = 0
    /\ requests = <<>>
    /\ sleeps = <<>>
    /\ r_result = ReqNoResult

\* Line 16: max_retries is MAX_RETRIES unless the caller gives another.
ReqInit ==
    /\ r_pc = "headers"
    /\ max_retries \in 0..MaxRetriesArg
    /\ attempt = 0
    /\ requests = <<>>
    /\ sleeps = <<>>
    /\ r_result = ReqNoResult

\* Lines 17-21: without headers the token is read, and a missing token raises.
BuildHeaders ==
    /\ r_pc = "headers"
    /\ \E h \in {"given", "token", "no token"} :
          IF h = "no token"
          THEN /\ r_result' = ReqRaise("Exception")
               /\ r_pc' = "done"
          ELSE /\ r_pc' = "loop"
               /\ UNCHANGED r_result
    /\ UNCHANGED <<max_retries, attempt, requests, sleeps, pubVars, parseVars,
                   modVars, csVars>>

\* Lines 23-30: one round of the loop up to the return or the raise.
Attempt ==
    /\ r_pc = "loop"
    /\ attempt < max_retries
    /\ \E o \in AttemptOutcomes :
          /\ requests' = Append(requests, o)
          /\ IF o = "response"
             THEN /\ r_result' = ReqResponse
                  /\ r_pc' = "done"
             ELSE IF LastAttempt(attempt, max_retries)
             THEN /\ r_result' = ReqRaise(o)
                  /\ r_pc' = "done"
             ELSE /\ r_pc' = "sleep"
                  /\ UNCHANGED r_result
    /\ UNCHANGED <<max_retries, attempt, sleeps, pubVars, parseVars, modVars,
                   csVars>>

\* Lines 31-32, and on to the next round.
SleepAndRetry ==
    /\ r_pc = "sleep"
    /\ sleeps' = Append(sleeps, Delay(attempt))
    /\ attempt' = attempt + 1
    /\ r_pc' = "loop"
    /\ UNCHANGED <<max_retries, requests, r_result, pubVars, parseVars,
                   modVars, csVars>>

\* Line 23 with nothing left in range(max_retries): the function ends with
\* no return statement.
FallOff ==
    /\ r_pc = "loop"
    /\ attempt >= max_retries
    /\ r_result' = ReqNone
    /\ r_pc' = "done"
    /\ UNCHANGED <<max_retries, attempt, requests, sleeps, pubVars, parseVars,
                   modVars, csVars>>

NextRequest ==
    \/ BuildHeaders
    \/ Attempt
    \/ SleepAndRetry
    \/ FallOff

----------------------------------------------------------------------------
(* setup_and_update_branch, lines 75-107 *)

\* What the caller hands over when it names no base branch.
Unspecified == "unspecified"

BaseArgs == BranchNames \cup {Unspecified}

\* Line 75: the parameter base_branch defaults to "main".
BaseParam(arg) == IF arg = Unspecified THEN "main" ELSE arg

\* Line 79: "main" stands for "not specified" and is replaced by the default.
ResolveBase(arg, dflt) == IF arg = "main" THEN dflt ELSE arg

\* The check of line 83 left out.
BranchGuardMissing(name) == FALSE

\* Line 83: if not new_branch.
BranchGuard(name) == name = None

\* A per-file except clause that catches GithubException only.
LoopHandlerGithubOnly(e) ==
    IF IsGithubException(e) THEN "continue" ELSE "propagate"

\* Lines 91-92: the per-file except clause catches every Exception.
LoopHandler(e) == "continue"

\* Line 94: if not files_updated.
NoOpGuard(updated) == ~updated

\* Lines 102-105 with the URL left out of the returned triple.
FinalResultNoUrl(pr) ==
    IF pr # None
    THEN Return(TRUE, MsgPrCreated, None)
    ELSE Return(FALSE, MsgPrFailed, None)

\* Lines 102-105.
FinalResult(pr) ==
    IF pr # None
    THEN Return(TRUE, MsgPrCreated, pr)
    ELSE Return(FALSE, MsgPrFailed, None)

\* An outer except clause that catches GithubException only.
OuterHandlerGithubOnly(e) ==
    IF IsGithubException(e) THEN Return(FALSE, MsgError, None) ELSE Raise

\* Lines 106-107: the outer except clause catches every Exception.
OuterHandler(e) == Return(FALSE, MsgError, None)

Finish(r) == /\ result' = r
             /\ pc' = "done"

Issue(cs) == /\ calls' = calls \o cs
             /\ refs' = HostRefs(refs, cs)
             /\ commits' = HostCommits(commits, cs)

PubInit ==
    /\ pc = "resolve"
    /\ modified_files \in EditSets
    /\ base_arg \in BaseArgs
    /\ default_branch \in {"main", "master"}
    /\ base_branch = None
    /\ new_branch = None
    /\ idx = 0
    /\ files_updated = FALSE
    /\ result = NoResult
    /\ calls = <<>>
    /\ refs = {}
    /\ commits = <<>>
    /\ diff_empty = "unknown"

PubIdle ==
    /\ pc = "idle"
    /\ modified_files = <<>>
    /\ base_arg = "main"
    /\ default_branch = "main"
    /\ base_branch = None
    /\ new_branch = None
    /\ idx = 0
    /\ files_updated = FALSE
    /\ result = NoResult
    /\ calls = <<>>
    /\ refs = {}
    /\ commits = <<>>
    /\ diff_empty = "unknown"

\* Lines 77-80.
Resolve ==
    /\ pc = "resolve"
    /\ \E o \in Outcomes :
         LET lookup == BaseParam(base_arg) = "main"
             cs == IF lookup
                   THEN <<Call("default_branch", None, None, None, o)>>
                   ELSE <<>>
         IN  /\ Issue(cs)
             /\ IF lookup /\ o # OK
                THEN /\ Finish(OuterHandler(o))
                     /\ UNCHANGED base_branch
                ELSE /\ base_branch' = ResolveBase(BaseParam(base_arg), default_branch)
                     /\ pc' = "create_branch"
                     /\ UNCHANGED result
    /\ UNCHANGED <<modified_files, base_arg, default_branch, new_branch, idx,
                   files_updated, diff_empty, parseVars, modVars, csVars, reqVars>>

\* Lines 82-84.
CreateBranch ==
    /\ pc = "create_branch"
    /\ \E oDef \in Outcomes, oTip \in Outcomes, oRef \in Outcomes :
         LET r == create_branch(base_branch, oDef, oTip, oRef)
         IN  /\ Issue(r.calls)
             /\ new_branch' = r.name
             /\ IF BranchGuard(r.name)
                THEN Finish(Return(FALSE, MsgBranchFailed, None))
                ELSE /\ pc' = "loop"
                     /\ UNCHANGED result
    /\ UNCHANGED <<modified_files, base_arg, default_branch, base_branch, idx,
                   files_updated, diff_empty, parseVars, modVars, csVars, reqVars>>

\* Lines 87-92: one iteration of the loop over the edit set.
UpdateNextFile ==
    /\ pc = "loop"
    /\ idx < Len(modified_files)
    /\ \E oGet \in Outcomes, oUpd \in Outcomes, oCre \in CreateOutcomes :
         LET r == update_file(modified_files[idx + 1], new_branch,
                              oGet, oUpd, oCre)
         IN  /\ Issue(r.calls)
             /\ IF r.raised = NoExc
                THEN /\ files_updated' = TRUE
                     /\ idx' = idx + 1
                     /\ UNCHANGED <<pc, result>>
                ELSE IF LoopHandler(r.raised) = "continue"
                THEN /\ idx' = idx + 1
                     /\ UNCHANGED <<pc, result, files_updated>>
                ELSE /\ Finish(OuterHandler(r.raised))
                     /\ UNCHANGED <<idx, files_updated>>
    /\ UNCHANGED <<modified_files, base_arg, default_branch, base_branch,
                   new_branch, diff_empty, parseVars, modVars, csVars, reqVars>>

\* Lines 94-96, reached when the loop has consumed the edit set.
CheckFilesUpdated ==
    /\ pc = "loop"
    /\ idx = Len(modified_files)
    /\ IF NoOpGuard(files_updated)
       THEN Finish(Return(FALSE, MsgNoFiles, None))
       ELSE /\ pc' = "pull"
            /\ UNCHANGED result
    /\ UNCHANGED <<modified_files, base_arg, default_branch, base_branch,
                   new_branch, idx, files_updated, calls, refs, commits,
                   diff_empty, parseVars, modVars, csVars, reqVars>>

\* Lines 98-105.
OpenPullRequest ==
    /\ pc = "pull"
    /\ \E oCmp \in PullOutcomes, empty \in BOOLEAN, oPull \in PullOutcomes :
         LET r == create_pull_request(new_branch, base_branch,
                                      oCmp, empty, oPull)
         IN  /\ Issue(r.calls)
             /\ diff_empty' = IF oCmp # OK THEN "unknown"
                              ELSE IF empty THEN "empty" ELSE "nonempty"
             /\ IF r.raised # NoExc
                THEN Finish(OuterHandler(r.raised))
                ELSE Finish(FinalResult(r.pr))
    /\ UNCHANGED <<modified_files, base_arg, default_branch, base_branch,
                   new_branch, idx, files_updated, parseVars, modVars, csVars, reqVars>>

Next ==
    \/ Resolve
    \/ CreateBranch
    \/ UpdateNextFile
    \/ CheckFilesUpdated
    \/ OpenPullRequest

Init == PubInit /\ ParseIdle /\ ModIdle /\ CsIdle /\ ReqIdle

Spec == Init /\ [][Next]_vars

InitParse == ParseInit /\ PubIdle /\ ModIdle /\ CsIdle /\ ReqIdle

SpecParse == InitParse /\ [][NextParse]_vars

InitModify == ModInit /\ PubIdle /\ ParseIdle /\ CsIdle /\ ReqIdle

SpecModify == InitModify /\ [][NextModify]_vars

InitCodespace == CsInit /\ PubIdle /\ ParseIdle /\ ModIdle /\ ReqIdle

SpecCodespace == InitCodespace /\ [][NextCodespace]_vars

InitRequest ==
    ReqInit /\ PubIdle /\ ParseIdle /\ ModIdle /\ CsIdle

SpecRequest == InitRequest /\ [][NextRequest]_vars

----------------------------------------------------------------------------
(* Properties of the publish attempt *)

Done == pc = "done"

\* The positions in the log of the calls of operation op.
CallsOf(op) == {i \in 1..Len(calls) : calls[i].op = op}

Failed(op) == \E i \in CallsOf(op) : calls[i].out # OK

Succeeded(op) == \E i \in CallsOf(op) : calls[i].out = OK

IsPrefix(s, t) == Len(s) <= Len(t) /\ SubSeq(t, 1, Len(s)) = s

\* The paths the loop has attempted, in the order of the attempts.
AttemptedPaths ==
    LET gets == SelectSeq(calls, LAMBDA c : c.op = "get_contents")
    IN  [i \in 1..Len(gets) |-> gets[i].path]

\* C1: if the branch was created and no file was actually updated or created
\* on it, the call returns succeeded=false with the "no files were updated"
\* message and neither compare nor create_pull is ever invoked.
C1_NoOpGuard ==
    (Done /\ new_branch # None /\ commits = <<>>)
        => /\ result = Return(FALSE, MsgNoFiles, None)
           /\ CallsOf("compare") = {}
           /\ CallsOf("create_pull") = {}

\* C2: when the comparison of the base branch against the new branch reports
\* no changed files, the call returns succeeded=true, without a pull-request
\* URL and without invoking create_pull.
C2_DiffCheck ==
    (Done /\ diff_empty = "empty")
        => /\ result.kind = "return"
           /\ result.succeeded = TRUE
           /\ result.message # MsgPrFailed
           /\ result.url = None
           /\ CallsOf("create_pull") = {}

\* C3: setup_and_update_branch never raises: whatever any step raises, the
\* call can always go on until it returns a triple, and when the default-branch
\* lookup, the branch creation, the comparison or the pull-request creation
\* failed the triple has succeeded=false and a message.
C3_NeverRaises ==
    /\ Done \/ ENABLED Next
    /\ Done => /\ result.kind = "return"
               /\ (Failed("default_branch") \/ Failed("get_branch")
                   \/ Failed("create_git_ref") \/ Failed("compare")
                   \/ Failed("create_pull"))
                      => (result.succeeded = FALSE /\ result.message # "")

C3_Witness ==
    /\ Done
    /\ \E i \in CallsOf("create_pull") : calls[i].out = Net
    /\ result = Return(FALSE, MsgError, None)

\* C4: when get_branch or create_git_ref fails, the call has returned
\* succeeded=false with the branch-failure message, each of the two was
\* issued at most once, and no file call, comparison or pull-request creation
\* was made.
C4_BranchFailureTerminal ==
    (Failed("get_branch") \/ Failed("create_git_ref"))
        => /\ Done
           /\ result = Return(FALSE, MsgBranchFailed, None)
           /\ Cardinality(CallsOf("get_branch")) = 1
           /\ Cardinality(CallsOf("create_git_ref")) <= 1
           /\ \A i \in 1..Len(calls) :
                calls[i].op \notin {"get_contents", "update_file",
                                    "create_file", "compare", "create_pull"}

C4_Witness ==
    /\ Done
    /\ Failed("create_git_ref")
    /\ modified_files # <<>>

\* C5: once the branch is created, the entries of the edit set are attempted
\* exactly once each, in iteration order, whatever happened to the others; a
\* failed write neither stops the loop nor ends the call before the no-op
\* guard.
C5_PerFileIsolation ==
    /\ AttemptedPaths = SubSeq(modified_files, 1, idx)
    /\ (new_branch # None /\ pc \in {"pull", "done"})
          => /\ idx = Len(modified_files)
             /\ AttemptedPaths = modified_files
    /\ (new_branch # None /\ Done /\ CallsOf("compare") = {})
          => result = Return(FALSE, MsgNoFiles, None)

C5_Witness ==
    /\ Done
    /\ Len(modified_files) >= 2
    /\ \E i \in CallsOf("create_file") :
         calls[i].path = modified_files[1] /\ calls[i].out = Net
    /\ commits = <<modified_files[2]>>

\* C6: no step ever removes a branch ref or a commit already made, and when
\* create_pull fails the call returns a result and the new branch and its
\* commits are still there.
C6_PullFailureKeepsWork ==
    [][ /\ refs \subseteq refs'
        /\ IsPrefix(commits, commits')
        /\ Failed("create_pull")' =>
              /\ result'.kind = "return"
              /\ refs' = refs \cup {NewBranchName}
              /\ commits' = commits
              /\ CallsOf("delete_git_ref")' = {} ]_vars

C6_Witness ==
    /\ Done
    /\ \E i \in CallsOf("create_pull") : calls[i].out = Gh(422)
    /\ result = Return(FALSE, MsgPrFailed, None)
    /\ NewBranchName \in refs
    /\ commits # <<>>

\* C7: every returned result has a non-empty message, and it has a
\* pull-request URL exactly when create_pull returned a pull request.
C7_ResultShape ==
    /\ ~Done => result = NoResult
    /\ (Done /\ result.kind = "return")
          => /\ result.message # ""
             /\ (result.url # None) <=> Succeeded("create_pull")

C7_Witness ==
    /\ Done
    /\ result = Return(TRUE, MsgPrCreated, PrUrl)

\* C8: every hosting-service call that fails with a transient network error is
\* either issued again, or was the last of MAX_RETRIES consecutive attempts.
C8_TransientRetried ==
    \A i \in 1..Len(calls) :
        calls[i].out = Net
            => \/ /\ i < Len(calls)
                  /\ calls[i + 1].op = calls[i].op
                  /\ calls[i + 1].path = calls[i].path
               \/ /\ i >= MAX_RETRIES
                  /\ \A k \in 0..(MAX_RETRIES - 1) :
                        /\ calls[i - k].op = calls[i].op
                        /\ calls[i - k].path = calls[i].path
                        /\ calls[i - k].out = Net

----------------------------------------------------------------------------
(* Properties of parse_ai_response *)

ParseDone == p_pc = "done"

\* C9: the parse order is direct, then fenced, then fail: a response that is
\* valid JSON as a whole yields the normalization of that value; otherwise a
\* json fenced block with a valid interior yields the normalization of the
\* interior; otherwise the call fails with the parse error. Every call returns
\* a mapping or fails with that parse error, and with no other error.
C9_ParseOrder ==
    ParseDone =>
        LET direct == json_loads(response)
            m      == FindFenced(response)
            inner  == json_loads(m.group1)
        IN  /\ outcome \in {"return", "ValueError"}
            /\ outcome = "return" => IsDict(data)
            /\ IF direct.ok
               THEN outcome = "return" /\ data = Normalize(direct.val)
               ELSE IF m.found /\ inner.ok
               THEN outcome = "return" /\ data = Normalize(inner.val)
               ELSE outcome = "ValueError"

\* C10: the post-parse normalization is idempotent: applying it to the
\* mapping parse_ai_response returned gives that mapping again.
C10_NormalizeIdempotent ==
    (ParseDone /\ outcome = "return") => Normalize(data) = data

\* The fields the step taken from the given position coerces to lists.
CoercedAt(pos) ==
    IF pos = "lists" THEN Range(ListFields)
    ELSE IF pos = "subtasks" THEN {"subtasks"}
    ELSE {}

\* Field k of dict after is field k of dict before, coerced when k is in cs.
FieldCoerced(before, after, k, cs) ==
    IF k \in cs /\ Has(before, k) /\ ~IsList(Get(before, k))
    THEN Has(after, k) /\ Get(after, k) = List(<<Get(before, k)>>)
    ELSE /\ Has(after, k) <=> Has(before, k)
         /\ Has(before, k) => Get(after, k) = Get(before, k)

\* A step of the list coercion changes the fields it coerces, and no other.
CoercionStep ==
    p_pc \in {"lists", "subtasks"}
        => /\ data'.keys = data.keys
           /\ \A k \in Range(PlanKeys) \cup Range(data.keys) :
                  FieldCoerced(data, data', k, CoercedAt(p_pc))

C12_IssueAnalysisString ==
    (ParseDone /\ outcome = "return" /\ Has(data, "issue_analysis"))
        => LET ia == Get(ParseText(response).val, "issue_analysis")
           IN  /\ IsStr(Get(data, "issue_analysis"))
               /\ IsDict(ia) =>
                      Get(data, "issue_analysis") =
                          IF Has(ia, "description")
                          THEN Get(ia, "description") ELSE PyStr(ia)

----------------------------------------------------------------------------
(* Properties of the plan built from the response *)

Constructed == p_pc = "constructed"

IsStrSeq(v) == IsList(v) /\ \A i \in 1..Len(v.items) : IsStr(v.items[i])

\* A value that has the six fields of the plan schema and no other, each of
\* the type the schema names.
Conforming(v) ==
    /\ IsDict(v)
    /\ Range(v.keys) = Range(PlanKeys)
    /\ Len(v.keys) = Len(PlanKeys)
    /\ IsStr(Get(v, "issue_analysis"))
    /\ IsStr(Get(v, "testing_strategy"))
    /\ IsStrSeq(Get(v, "dependencies"))
    /\ IsStrSeq(Get(v, "potential_challenges"))
    /\ IsStrSeq(Get(v, "documentation_updates"))
    /\ IsList(Get(v, "subtasks"))
    /\ \A i \in 1..Len(Get(v, "subtasks").items) :
           LET st == Get(v, "subtasks").items[i]
           IN  /\ IsDict(st)
               /\ Range(st.keys) = Range(SubtaskKeys)
               /\ Len(st.keys) = Len(SubtaskKeys)
               /\ \A j \in 1..Len(st.items) : IsStr(st.items[j])

\* The fields of plan p are those of payload v, element for element.
SameFields(p, v) ==
    /\ \A k \in Range(PlanKeys) \ {"subtasks"} : Get(p, k) = Get(v, k)
    /\ Len(Get(p, "subtasks").items) = Len(Get(v, "subtasks").items)
    /\ \A i \in 1..Len(Get(v, "subtasks").items) :
           \A k \in Range(SubtaskKeys) :
               Get(Get(p, "subtasks").items[i], k)
                   = Get(Get(v, "subtasks").items[i], k)

\* C13: a response that holds a payload conforming to the plan schema makes
\* the round trip: parse_ai_response returns the payload unchanged, and the
\* plan built from it has the six fields of the payload, element for element
\* and in order.
C13_RoundTrip ==
    (Constructed /\ Conforming(ParseText(response).val))
        => /\ data = ParseText(response).val
           /\ plan.st = "plan"
           /\ SameFields(plan.val, ParseText(response).val)

C13_Witness ==
    /\ Constructed
    /\ ParseText(response).from = "fenced"
    /\ Conforming(ParseText(response).val)
    /\ plan.st = "plan"
    /\ Get(plan.val, "subtasks") = List(<<SubtaskOf(ASubtask), SubtaskOf(BSubtask)>>)
    /\ Get(plan.val, "dependencies") = List(<<Str("text"), Str("other")>>)

\* C14 as stated: every plan built has at least one subtask, every subtask a
\* description that is not empty, and a mapping whose subtasks list is empty
\* is rejected.
C14_NonEmptyPlan ==
    Constructed =>
        /\ plan.st = "plan" =>
               /\ Len(Get(plan.val, "subtasks").items) >= 1
               /\ \A i \in 1..Len(Get(plan.val, "subtasks").items) :
                      Get(Get(plan.val, "subtasks").items[i], "description")
                          # Str("")
        /\ (Has(data, "subtasks") /\ Get(data, "subtasks") = List(<<>>))
               => plan.st = "ValidationError"

\* C14 amended: every plan built has a list of subtasks, which may be empty,
\* and every subtask a description and an estimated time that are strings,
\* which may be empty; a mapping that is valid but for an empty subtasks list
\* is accepted and gives a plan without subtasks.
C14_SubtasksTyped ==
    Constructed =>
        /\ plan.st = "plan" =>
               /\ IsList(Get(plan.val, "subtasks"))
               /\ \A i \in 1..Len(Get(plan.val, "subtasks").items) :
                      \A k \in Range(SubtaskKeys) :
                          IsStr(Get(Get(plan.val, "subtasks").items[i], k))
        /\ (Conforming(data) /\ Get(data, "subtasks") = List(<<>>))
               => /\ plan.st = "plan"
                  /\ Get(plan.val, "subtasks") = List(<<>>)

C14_Witness ==
    /\ Constructed
    /\ plan.st = "plan"
    /\ Get(data, "subtasks") = List(<<>>)
    /\ Get(plan.val, "subtasks") = List(<<>>)

----------------------------------------------------------------------------
(* Properties of modify_files *)

ModDone == m_pc = "done"

\* The calls the step appends to the log.
NewCalls == SubSeq(m_calls', Len(m_calls) + 1, Len(m_calls'))

NewFns == {NewCalls[k].fn : k \in 1..Len(NewCalls)}

AtSubtask == m_pc = "subtask" /\ m_i <= Len(m_plan)

\* A step of modify_files takes the first strategy whose test matches.
RoutingStep ==
    /\ AtSubtask =>
          LET d == Lower(m_plan[m_i])
          IN  IF Contains(d, KwCreateTestFile)
              THEN /\ NewFns = {"create_test_file"}
                   /\ m_pc' = "subtask" /\ m_i' = m_i + 1
                   /\ ForMatches(m_plan[m_i]) = {}
                         => m_modified_files' = m_modified_files
              ELSE IF Contains(d, KwUpdateReadme)
              THEN /\ NewFns \in {{"update_readme"}, {"create_readme"}}
                   /\ m_pc' = "subtask" /\ m_i' = m_i + 1
              ELSE /\ NewFns = {}
                   /\ m_pc' = "files"
                   /\ m_modified_files' = m_modified_files
    /\ m_pc = "files" =>
          LET d == Lower(m_plan[m_i])
          IN  /\ ~Contains(d, KwCreateTestFile)
              /\ ~Contains(d, KwUpdateReadme)
              /\ NewFns \subseteq {"implement_changes_with_openai"}
              /\ m_j <= Len(file_contents) =>
                    /\ \A k \in 1..Len(NewCalls) :
                           NewCalls[k].path = file_contents[m_j].path
                    /\ NewFns # {}
                          <=> Contains(d, Lower(file_contents[m_j].path))

\* C15: the strategy of a subtask is the first that matches its lower-cased
\* description: create-test-file on "create test file", else update-readme on
\* "update readme", else the generic edit of every known path the description
\* names. A subtask that matches an earlier rule triggers no later one: a
\* "create test file" subtask with no identifier makes no edit and no
\* generic-edit call, whatever else it mentions.
C15_FirstMatchWins == [][RoutingStep]_vars

C15_Witness ==
    /\ ModDone
    /\ m_result = "return"
    /\ m_plan = <<DescTestNoIdentifier, DescUpdateReadmeAndApp>>
    /\ {ReadmePath, AppPath} \subseteq KeysOf(file_contents)
    /\ KeysOf(m_modified_files) = {ReadmePath}
    /\ {m_calls[k].fn : k \in 1..Len(m_calls)}
          = {"get_openai_client", "create_test_file", "update_readme"}

\* The file create_test_file is to give for identifier id and description d.
IsTestFileFor(fc, id, d) ==
    LET name == <<"test_">> \o id \o <<".", "py">>
    IN  /\ name \in KeysOf(fc)
        /\ LET c == ContentOf(fc, name)
           IN  /\ \E i \in 1..Len(c) :
                      c[i].k = "from import app" /\ c[i].id = id
               /\ Cardinality({i \in 1..Len(c) :
                                  c[i].k = "def test endpoints"}) = 1
               /\ \E i \in 1..Len(c) : c[i].k = "TODO" /\ c[i].d = d

\* A create-test-file step adds the test file of the first identifier that
\* follows a "for", and adds nothing when there is none.
TestFileStep ==
    (AtSubtask /\ Contains(Lower(m_plan[m_i]), KwCreateTestFile)) =>
        LET d  == m_plan[m_i]
            ms == ForMatches(d)
        IN  IF ms # {}
            THEN /\ IsTestFileFor(m_modified_files',
                                  WordRun(d, Min(ms) + 2), d)
                 /\ \A p \in KeysOf(m_modified_files') :
                        \/ p = <<"test_">> \o WordRun(d, Min(ms) + 2)
                                 \o <<".", "py">>
                        \/ /\ p \in KeysOf(m_modified_files)
                           /\ ContentOf(m_modified_files', p)
                                 = ContentOf(m_modified_files, p)
            ELSE /\ m_modified_files' = m_modified_files
                 /\ NewCalls[1].ret = <<>>

\* C16: a create-test-file subtask whose description holds "for <identifier>"
\* yields the file test_<identifier>.py, whose content imports that module
\* and holds exactly one placeholder test with a to-do that cites the whole
\* description; without an identifier the result is empty and no entry is
\* added.
C16_TestFileShape == [][TestFileStep]_vars

C16_Witness ==
    /\ ModDone
    /\ m_result = "return"
    /\ m_plan = <<DescTestForWidgets, DescTestCapitalFor>>
    /\ KeysOf(m_modified_files) = {<<"test_", "widgets", ".", "py">>}
    /\ IsTestFileFor(m_modified_files, <<"widgets">>, DescTestForWidgets)

HeadingCount(c) ==
    Cardinality({i \in 1..Len(c) : c[i] = RunningTestsHeading})

\* C17: update_readme is idempotent and never writes the test section twice:
\* content that holds the Running Tests heading comes back unchanged, as does
\* what create_readme wrote, so the update-readme strategy adds no entry for
\* a README that is up to date.
C17_ReadmeIdempotent ==
    /\ \A k \in 1..Len(m_calls) :
          LET c == m_calls[k]
          IN  /\ c.fn = "update_readme" =>
                    /\ update_readme(c.ret, m_plan[c.i]) = c.ret
                    /\ HeadingCount(c.ret) = 1 \/ c.ret = c.arg
                    /\ Contains(c.arg, <<RunningTestsHeading>>)
                          => c.ret = c.arg
              /\ c.fn \in {"update_readme", "create_readme"} =>
                    update_readme(create_readme(m_plan[c.i]), m_plan[c.i])
                        = create_readme(m_plan[c.i])
    /\ (/\ ReadmePath \in KeysOf(file_contents)
        /\ Contains(ContentOf(file_contents, ReadmePath),
                    <<RunningTestsHeading>>)
        /\ ReadmePath \in KeysOf(m_modified_files))
          => \E k \in 1..Len(m_calls) :
                /\ m_calls[k].fn = "implement_changes_with_openai"
                /\ m_calls[k].path = ReadmePath

C17_Witness ==
    /\ ModDone
    /\ m_result = "return"
    /\ m_plan = <<DescUpdateReadme>>
    /\ ReadmePath \in KeysOf(file_contents)
    /\ ContentOf(file_contents, ReadmePath) = create_readme(DescUpdateReadme)
    /\ m_modified_files = <<>>
    /\ \E k \in 1..Len(m_calls) : m_calls[k].fn = "update_readme"

\* C18: every path of the edit set that is a key of file_contents maps to a
\* content that differs from the original content of that path.
C18_EditSetDiffers ==
    \A k \in 1..Len(m_modified_files) :
        m_modified_files[k].path \in KeysOf(file_contents)
            => m_modified_files[k].content
                  # ContentOf(file_contents, m_modified_files[k].path)

\* C19: when the transformation of a file fails, modify_files leaves the file
\* out, goes on through the remaining files and subtasks, and returns the edit
\* set: it does not raise.
C19_FailuresIsolated ==
    (/\ ModDone
     /\ \E k \in 1..Len(m_calls) :
           /\ m_calls[k].fn = "implement_changes_with_openai"
           /\ m_calls[k].out = "raise")
        => /\ m_result = "return"
           /\ m_i > Len(m_plan)

----------------------------------------------------------------------------
(* Properties of setup_and_test_codespace *)

\* C20: each polling loop stops once the wall-clock ceiling has elapsed:
\* wait_for_codespace_ready goes on to sleep and poll again only while the
\* wait has lasted no more than the ceiling, and run_command_in_codespace
\* likewise, even when the command is never reported completed, so that
\* setup_and_test_codespace returns as long as every request returns.
C20_PollingBounded ==
    /\ cs_pc = "wait_sleep" => elapsed <= READY_TIMEOUT
    /\ cs_pc = "command_sleep" => elapsed <= READY_TIMEOUT

----------------------------------------------------------------------------
(* Properties of the later claims on modify_files *)

\* The extension of a path: what follows its last dot.
ExtensionOf(path) == path[Len(path)]

\* The language family a file name belongs to.
FamilyOf(path) ==
    CASE ExtensionOf(path) \in {"js", "ts"} -> "JS"
      [] ExtensionOf(path) = "cs" -> "C#"
      [] OTHER -> "Python"

\* The family a strict majority of the paths belongs to, Python without one.
MajorityFamily(paths) ==
    LET of(f) == Cardinality({p \in paths : FamilyOf(p) = f})
    IN  IF 2 * of("JS") > Cardinality(paths) THEN "JS"
        ELSE IF 2 * of("C#") > Cardinality(paths) THEN "C#"
        ELSE "Python"

\* C21: the file the create-test-file strategy gives is of the language
\* family that a strict majority of the known file paths has: JS for .js and
\* .ts, C# for .cs, and Python otherwise, ties and the empty file set
\* included.
C21_LanguageFamily ==
    \A k \in 1..Len(m_calls) :
        (m_calls[k].fn = "create_test_file" /\ m_calls[k].ret # <<>>)
            => FamilyOf(m_calls[k].path) = MajorityFamily(KeysOf(file_contents))

\* Call k of the log gave, for its path, a content that is a change: a new
\* file, or a content other than the original of that path.
ProducedChange(k) ==
    /\ m_calls[k].fn \in {"create_test_file", "update_readme", "create_readme",
                          "implement_changes_with_openai"}
    /\ m_calls[k].out = "ok"
    /\ m_calls[k].ret # <<>>
    /\ m_calls[k].path \in KeysOf(file_contents)
          => m_calls[k].ret # ContentOf(file_contents, m_calls[k].path)

\* The calls of the log that changed the given path.
ChangesOf(path) ==
    {k \in 1..Len(m_calls) : m_calls[k].path = path /\ ProducedChange(k)}

Max(S) == CHOOSE x \in S : \A y \in S : x >= y

\* C23: each subtask edits the original content of file_contents, never the
\* output of an earlier subtask, and the edit set holds for a path the result
\* of the last subtask in plan order that produced a change; a later subtask
\* whose result equals the original content neither removes nor overwrites
\* the entry of an earlier one.
C23_LastChangeWins ==
    /\ \A k \in 1..Len(m_calls) :
          m_calls[k].fn \in {"update_readme", "implement_changes_with_openai"}
              => m_calls[k].arg = ContentOf(file_contents, m_calls[k].path)
    /\ \A k \in 1..Len(m_calls) :
          ProducedChange(k) =>
              /\ m_calls[k].path \in KeysOf(m_modified_files)
              /\ ContentOf(m_modified_files, m_calls[k].path)
                    = m_calls[Max(ChangesOf(m_calls[k].path))].ret

----------------------------------------------------------------------------
(* Properties of the later claims on the publish attempt *)

FileOps == {"get_contents", "update_file", "create_file"}

FileCalls == {i \in 1..Len(calls) : calls[i].op \in FileOps}

\* C22: the publish attempt goes branch-create, edit-apply, diff-check,
\* PR-create: the new branch ref is created before any file call, every file
\* call comes before the comparison, the comparison before create_pull, which
\* is issued at most once, and every file read and write names the new branch,
\* never the base branch.
C22_PublishOrder ==
    /\ \A i \in FileCalls :
          /\ \E j \in CallsOf("create_git_ref") : j < i /\ calls[j].out = OK
          /\ calls[i].ref = NewBranchName
          /\ calls[i].ref # base_branch
          /\ \A c \in CallsOf("compare") : i < c
    /\ \A p \in CallsOf("create_pull") :
          \E c \in CallsOf("compare") : c < p /\ calls[c].out = OK
    /\ Cardinality(CallsOf("create_git_ref")) <= 1
    /\ Cardinality(CallsOf("compare")) <= 1
    /\ Cardinality(CallsOf("create_pull")) <= 1

C22_Witness ==
    /\ Done
    /\ Len(modified_files) = MaxFiles
    /\ Succeeded("update_file")
    /\ Succeeded("create_file")
    /\ Succeeded("compare")
    /\ Succeeded("create_pull")

BaseCalls == {i \in 1..Len(calls) :
                 calls[i].op \in {"create_git_ref", "compare", "create_pull"}}

\* C24: the default branch of the repository is asked for only when the
\* caller named no base branch; when the caller names one, "main" on a
\* repository with another default branch included, the new branch is cut
\* from the tip of the named branch, and the comparison and the pull request
\* have the named branch as base.
C24_BaseResolution ==
    /\ CallsOf("default_branch") # {} => base_arg = Unspecified
    /\ base_arg # Unspecified =>
          /\ \A i \in CallsOf("get_branch") : calls[i].ref = base_arg
          /\ \A i \in BaseCalls : calls[i].base = base_arg

----------------------------------------------------------------------------
(* Properties of the clean-up of setup_and_test_codespace *)

CsDone == cs_pc = "done"

\* C25: when create_codespace returned a codespace, delete_codespace is
\* called exactly once, after every other step and before the call returns,
\* whether readiness timed out, a command failed or a step raised; when
\* create_codespace raised, no delete is issued; a failed delete is
\* swallowed, so the call hands back a (success, output) pair and never
\* raises.
C25_CleanupOnce ==
    /\ Len(deletes) <= 1
    /\ deletes # <<>> => CsDone /\ codespace = "created"
    /\ ~CsDone => cs_result.kind \in {"none", "return"}
    /\ CsDone =>
          /\ cs_result.kind = "return"
          /\ codespace = "created" <=> Len(deletes) = 1
          /\ codespace = "unbound" => cs_result = CsHandler

C25_Witness ==
    /\ CsDone
    /\ cs_result = CsResult(FALSE, "Codespace failed to become ready")
    /\ elapsed > READY_TIMEOUT
    /\ deletes = <<"raise">>

----------------------------------------------------------------------------
(* Properties of make_github_request *)

ReqDone == r_pc = "done"

Failures == {i \in 1..Len(requests) : requests[i] # "response"}

\* C26: for max_retries of one or more, make_github_request issues at most
\* max_retries requests, returns the first response that succeeds and issues
\* no request after it, sleeps the same RETRY_DELAY after every failed attempt
\* but the last, and after max_retries failures in a row raises the last of
\* them; it ends with a response or with an error raised, never with neither.
C26_BoundedRetry ==
    max_retries >= 1 =>
        /\ Len(requests) <= max_retries
        /\ \A i \in 1..Len(requests) :
              requests[i] = "response" => i = Len(requests)
        /\ \A i \in 1..Len(sleeps) : sleeps[i] = RETRY_DELAY
        /\ Len(sleeps) <= Cardinality(Failures)
        /\ ReqDone =>
              /\ r_result.kind \in {"response", "raise"}
              /\ r_result.kind = "response" =>
                    /\ requests[Len(requests)] = "response"
                    /\ Len(sleeps) = Len(requests) - 1
              /\ (r_result.kind = "raise" /\ requests # <<>>) =>
                    /\ Len(requests) = max_retries
                    /\ Failures = 1..max_retries
                    /\ r_result.e = requests[max_retries]
                    /\ Len(sleeps) = max_retries - 1

C26_Witness ==
    /\ ReqDone
    /\ max_retries = MAX_RETRIES
    /\ requests = <<"HTTPError", "ConnectionError", "HTTPError">>
    /\ sleeps = <<RETRY_DELAY, RETRY_DELAY>>
    /\ r_result = ReqRaise("HTTPError")

====
